---- MODULE Spec2Model ----
(***************************************************************************)
(* Authorization core of app-backend: the static permission catalog        *)
(* (config/permissions.js), the override store and effective-permission    *)
(* resolver (models/rbac.model.js, migration 001) and the route guards     *)
(* (middleware/rbac.middleware.js, middleware/auth.middleware.js).         *)
(***************************************************************************)
EXTENDS Integers, Sequences, FiniteSets, TLC

(***************************************************************************)
(* Bounds of the model.                                                    *)
(***************************************************************************)
\* the clock runs over 0..MaxTime
MaxTime == 2
\* number of store writes (grant, revoke, cleanup) in one behaviour
MaxOps == 3
\* longest permission list handed to the all-of / any-of checks
MaxPerms == 2

(***************************************************************************)
(* JavaScript / SQL values.                                                *)
(***************************************************************************)
\* a role or name that is undefined / null
Undefined == "<undefined>"
\* expires_on IS NULL / expiresOn: null
NullDate == 0 - 1
\* the expiresOn key absent from the call (undefined)
UndefinedDate == 0 - 2
\* reason IS NULL
NullText == "<null>"
\* ENUM('0','1') flags
Flag0 == "0"
Flag1 == "1"

\* !x for a string-or-undefined value
Falsy(s) == s = "" \/ s = Undefined

(***************************************************************************)
(* config/permissions.js: PERMISSIONS and ROLE_PERMISSIONS.                *)
(***************************************************************************)
PERMISSIONS ==
  { "user:create", "user:read", "user:read:all", "user:update",
    "user:update:any", "user:delete", "user:delete:any", "user:verify",
    "user:activate", "user:deactivate",
    "agent:create", "agent:read", "agent:read:all", "agent:update",
    "agent:update:any", "agent:delete", "agent:delete:any", "agent:verify",
    "agent:approve", "agent:reject", "agent:activate", "agent:deactivate",
    "category:create", "category:read", "category:update", "category:delete",
    "category:activate", "category:deactivate",
    "address:create", "address:read", "address:read:all", "address:update",
    "address:update:any", "address:delete", "address:delete:any",
    "booking:create", "booking:read", "booking:read:all", "booking:update",
    "booking:update:any", "booking:delete", "booking:delete:any",
    "booking:assign", "booking:complete", "booking:cancel",
    "analytics:view", "analytics:export",
    "system:config:read", "system:config:update",
    "file:upload", "file:delete", "file:delete:any" }

ROLE_PERMISSIONS ==
  [ admin |-> PERMISSIONS,
    agent |-> { "agent:read", "agent:update", "category:read",
                "booking:read", "booking:update", "booking:complete",
                "file:upload", "file:delete", "user:read" },
    customer |-> { "user:read", "user:update",
                   "address:create", "address:read", "address:update",
                   "address:delete", "category:read",
                   "agent:read", "agent:read:all",
                   "booking:create", "booking:read", "booking:update",
                   "booking:cancel", "file:upload", "file:delete" } ]

\* property names every object literal inherits from Object.prototype
ObjectPrototypeKeys ==
  { "constructor", "toString", "valueOf", "hasOwnProperty", "__proto__" }

\* the value of the expression ROLE_PERMISSIONS[role]
RoleLookup(role) ==
  IF role \in DOMAIN ROLE_PERMISSIONS
    THEN [kind |-> "array", items |-> ROLE_PERMISSIONS[role]]
  ELSE IF role \in ObjectPrototypeKeys
    THEN [kind |-> "inherited", items |-> {}]
  ELSE [kind |-> "undefined", items |-> {}]

\* ROLE_PERMISSIONS[role] || []
RoleLookupOrEmpty(role) ==
  IF RoleLookup(role).kind = "undefined"
    THEN [kind |-> "array", items |-> {}]
    ELSE RoleLookup(role)

\* result of a call: a returned boolean, or a thrown TypeError
Ret(b) == [thrown |-> FALSE, value |-> b]
Thrown == [thrown |-> TRUE, value |-> FALSE]

hasPermission(role, permission) ==
  IF Falsy(role) \/ Falsy(permission) THEN Ret(FALSE)
  ELSE LET rolePermissions == RoleLookupOrEmpty(role)
       IN  IF rolePermissions.kind = "array"
             THEN Ret(permission \in rolePermissions.items)
             ELSE Thrown  \* rolePermissions.includes is not a function

\* config getRolePermissions(role): the array, or whatever the lookup yields
getRolePermissions(role) == RoleLookupOrEmpty(role)

\* hasAllPermissions: permissions.every(p => hasPermission(role, p))
RECURSIVE every(_, _)
every(role, permissions) ==
  IF permissions = <<>> THEN Ret(TRUE)
  ELSE LET h == hasPermission(role, Head(permissions))
       IN  IF h.thrown THEN Thrown
           ELSE IF ~h.value THEN Ret(FALSE)
           ELSE every(role, Tail(permissions))

\* hasAnyPermission: permissions.some(p => hasPermission(role, p))
RECURSIVE some(_, _)
some(role, permissions) ==
  IF permissions = <<>> THEN Ret(FALSE)
  ELSE LET h == hasPermission(role, Head(permissions))
       IN  IF h.thrown THEN Thrown
           ELSE IF h.value THEN Ret(TRUE)
           ELSE some(role, Tail(permissions))

hasAllPermissions(role, permissions) ==
  IF Falsy(role) THEN Ret(FALSE) ELSE every(role, permissions)

hasAnyPermission(role, permissions) ==
  IF Falsy(role) THEN Ret(FALSE) ELSE some(role, permissions)

(***************************************************************************)
(* Identifier values: numbers, strings, undefined, and the Promise an      *)
(* async function returns.                                                 *)
(***************************************************************************)
Num(n) == [t |-> "number", n |-> n, s |-> ""]
Str(s) == [t |-> "string", n |-> 0, s |-> s]
Undef == [t |-> "undefined", n |-> 0, s |-> ""]
Promise == [t |-> "promise", n |-> 0, s |-> ""]

\* the truthiness of a value in a && chain
Truthy(v) ==
  CASE v.t = "number" -> v.n # 0
    [] v.t = "string" -> v.s # ""
    [] v.t = "promise" -> TRUE
    [] OTHER -> FALSE

Digit(d) ==
  CASE d = 0 -> "0" [] d = 1 -> "1" [] d = 2 -> "2" [] d = 3 -> "3"
    [] d = 4 -> "4" [] d = 5 -> "5" [] d = 6 -> "6" [] d = 7 -> "7"
    [] d = 8 -> "8" [] OTHER -> "9"

RECURSIVE Decimal(_)
Decimal(n) == IF n < 10 THEN Digit(n) ELSE Decimal(n \div 10) \o Digit(n % 10)

\* String(v)
String(v) ==
  CASE v.t = "number" -> Decimal(v.n)
    [] v.t = "string" -> v.s
    [] v.t = "promise" -> "[object Promise]"
    [] OTHER -> "undefined"

\* isResourceOwner without the two presence tests
isResourceOwner_noPresenceCheck(userId, resourceOwnerId) ==
  String(userId) = String(resourceOwnerId)

\* userId && resourceOwnerId && String(userId) === String(resourceOwnerId),
\* as the truth value its callers test
isResourceOwner(userId, resourceOwnerId) ==
  Truthy(userId) /\ Truthy(resourceOwnerId)
    /\ String(userId) = String(resourceOwnerId)

canPerformAction(role, permission, ownerPermission, userId, resourceOwnerId) ==
  LET any == hasPermission(role, permission)
  IN  IF any.thrown THEN Thrown
      ELSE IF any.value THEN Ret(TRUE)
      ELSE IF ~Falsy(ownerPermission) /\ isResourceOwner(userId, resourceOwnerId)
        THEN hasPermission(role, ownerPermission)
      ELSE Ret(FALSE)

(***************************************************************************)
(* Database state: migration 001 seed data and the users table.            *)
(***************************************************************************)
\* users rows (id -> role); ids are AUTO_INCREMENT keys
Users == {7, 42}
UnknownUsers == {99}
UserRole(u) == IF u = 7 THEN "customer" ELSE "agent"
UserIsActive(u) == Flag1

\* roles rows seeded by the migration, all with is_active = '1'
RoleRows == {"admin", "agent", "customer"}
RoleIsActive(r) == Flag1

\* permissions rows seeded by the migration, all with is_active = '1'
PermissionRows == PERMISSIONS
PermissionIsActive(p) == Flag1

\* the seed with the agent's and the customer's lists cut short
SeedRolePermissions_cutShort ==
  [ admin |-> PermissionRows,
    agent |-> { "agent:read", "agent:update", "category:read" },
    customer |-> { "user:read", "user:update", "category:read" } ]

\* role_permissions rows seeded by the migration
SeedRolePermissions ==
  [ admin |-> PermissionRows,
    agent |-> { "agent:read", "agent:update", "category:read",
                "booking:read", "booking:update", "booking:complete",
                "file:upload", "file:delete", "user:read" },
    customer |-> { "user:read", "user:update",
                   "address:create", "address:read", "address:update",
                   "address:delete", "category:read",
                   "agent:read", "agent:read:all",
                   "booking:create", "booking:read", "booking:update",
                   "booking:cancel", "file:upload", "file:delete" } ]

\* permission names the administrative calls are exercised with
UnknownPermission == "report:purge"
StorePerms == {"user:update:any", "address:update"}
PermInputs == StorePerms
UserInputs == Users
Admins == {1}
Dates == 0..MaxTime
\* the expiresOn argument: a date, null, or absent
ExpiryInputs == Dates \cup {NullDate, UndefinedDate}
\* the (userId, permissionName) pairs of the administrative calls: the known
\* pairs, one with a user id that has no users row and one with a name that
\* has no permissions row
UnknownRefs ==
  (UnknownUsers \X {"user:update:any"}) \cup ({42} \X {UnknownPermission})
CallPairs == (UserInputs \X PermInputs) \cup UnknownRefs
\* the expiresOn values tried with a pair
ExpiryInputsFor(pair) ==
  IF pair \in UnknownRefs THEN {UndefinedDate} ELSE ExpiryInputs
\* the reason argument: a text on the time-limited grants, absent otherwise
ReasonFor(expiresOn) ==
  IF expiresOn \in Dates THEN "temporary access" ELSE Undefined

VARIABLES
  now,              \* the clock: new Date(), NOW(), CURRENT_TIMESTAMP
  userPermissions,  \* rows of the user_permissions table
  lastOp,           \* the last administrative call and its result
  opsDone,          \* number of store writes so far
  lastGuard,        \* the last guard evaluation and its outcome
  inflight,         \* per administrator: the grantUserPermission call in progress
  rolePermissionRows,  \* rows of the role_permissions table, per role name
  reader,           \* the getUserEffectivePermissions call in progress
  request           \* the request on its way through a guard

vars ==
  <<now, userPermissions, lastOp, opsDone, lastGuard, inflight,
    rolePermissionRows, reader, request>>
storeVars ==
  <<now, userPermissions, lastOp, opsDone, inflight, rolePermissionRows, reader,
    request>>

(***************************************************************************)
(* models/rbac.model.js: UserPermission rows and the resolver.             *)
(***************************************************************************)
\* the row of the (user_id, permission_id) pair, as a set (empty when none)
RowsFor(store, userId, permission) ==
  {r \in store : r.userId = userId /\ r.permission = permission}

\* isExpired with the comparison made inclusive (expired at expiresOn itself)
isExpired_inclusive(row, t) ==
  IF row.expiresOn = NullDate THEN FALSE ELSE t >= row.expiresOn

\* UserPermission.prototype.isExpired
isExpired(row, t) ==
  IF row.expiresOn = NullDate THEN FALSE ELSE t > row.expiresOn

\* UserPermission.prototype.isActivePermission
isActivePermission(row, t) == row.isGranted = Flag1 /\ ~isExpired(row, t)

\* Permission.findByName: the active row of that name, if any
PermissionFindByName(name) ==
  {p \in PermissionRows : p = name /\ PermissionIsActive(p) = Flag1}

\* Role.findByName: the active row of that name, if any
RoleFindByName(name) ==
  {r \in RoleRows : r = name /\ RoleIsActive(r) = Flag1}

\* role.getPermissions({ where: { isActive: '1' } })
RoleGetPermissions(role) ==
  {p \in rolePermissionRows[role] : PermissionIsActive(p) = Flag1}

\* UserPermission.findAll({ where: { userId, isGranted: '1' }, include active Permission })
GrantedRows(store, userId) ==
  {r \in store : /\ r.userId = userId
                 /\ r.isGranted = Flag1
                 /\ PermissionIsActive(r.permission) = Flag1}

\* UserPermission.findActiveForUser: the granted rows of the user whose
\* permission is active
findActiveForUser(store, userId) ==
  {r \in store : /\ r.userId = userId
                 /\ r.isGranted = Flag1
                 /\ PermissionIsActive(r.permission) = Flag1}

\* v_user_effective_permissions, the 'user_override' branch: permission
\* names the view lists for the user at time t
ViewUserOverrides(store, t, userId) ==
  {r.permission : r \in
     {up \in store : /\ up.userId = userId
                     /\ userId \in Users
                     /\ UserIsActive(userId) = Flag1
                     /\ up.isGranted = Flag1
                     /\ PermissionIsActive(up.permission) = Flag1
                     /\ (up.expiresOn = NullDate \/ up.expiresOn > t)}}

\* v_user_effective_permissions, the 'role' branch: users joined to roles,
\* role_permissions and permissions, all active
ViewRolePermissions(userId) ==
  IF /\ userId \in Users
     /\ UserIsActive(userId) = Flag1
     /\ UserRole(userId) \in RoleRows
     /\ RoleIsActive(UserRole(userId)) = Flag1
    THEN {p \in rolePermissionRows[UserRole(userId)] : PermissionIsActive(p) = Flag1}
    ELSE {}

\* v_user_effective_permissions: the permission names listed for the user
v_user_effective_permissions(store, t, userId) ==
  ViewRolePermissions(userId) \cup ViewUserOverrides(store, t, userId)

\* sp_check_user_permission: COUNT(*) > 0 over the view
sp_check_user_permission(store, t, userId, permissionName) ==
  permissionName \in v_user_effective_permissions(store, t, userId)

getUserEffectivePermissions(store, t, userId) ==
  IF userId \notin Users THEN {}
  ELSE IF RoleFindByName(UserRole(userId)) = {} THEN {}
  ELSE LET role == CHOOSE r \in RoleFindByName(UserRole(userId)) : TRUE
           rolePermissions == RoleGetPermissions(role)
           activeUserPermissions ==
             {r.permission : r \in {up \in GrantedRows(store, userId) : ~isExpired(up, t)}}
       IN  rolePermissions \cup activeUserPermissions

userHasPermission(store, t, userId, permissionName) ==
  permissionName \in getUserEffectivePermissions(store, t, userId)

\* the user whose effective permissions are read while writes go on
ReaderUser == 42

\* no read in progress
NoRead ==
  [pc |-> "idle", role |-> Undefined, rolePermissions |-> {}, result |-> {},
   inForce |-> {}]

\* the effective permissions of ReaderUser in the stored state, at the clock
InForce == getUserEffectivePermissions(userPermissions, now, ReaderUser)

\* while a read is in progress, every stored state it overlaps is recorded
\* with the effective permissions then in force
ReaderObserves ==
  reader' = IF reader.pc \in {"idle", "returned"} THEN reader
            ELSE [reader EXCEPT !.inForce = @ \cup {InForce'}]

\* no request under way
NoRequest == [phase |-> "none", handlerRuns |-> 0, response |-> 0]

(***************************************************************************)
(* middleware/rbac.middleware.js and middleware/auth.middleware.js: the    *)
(* guards.  A guard either calls next() or throws; what it throws reaches  *)
(* the global error handler of app.js, which answers with a status code.   *)
(***************************************************************************)
HTTP_STATUS ==
  [UNAUTHORIZED |-> 401, FORBIDDEN |-> 403, INTERNAL_SERVER_ERROR |-> 500]

\* new ApiError(statusCode, ...) and an error that carries no status
ApiError(statusCode) == [statusCode |-> statusCode]
PlainError == [statusCode |-> 0]

\* app.js error handler: err.statusCode if set, else err.status || 500
ErrorResponse(err) ==
  IF err.statusCode # 0 THEN err.statusCode ELSE HTTP_STATUS.INTERNAL_SERVER_ERROR

NoAttached == [kind |-> "none", items |-> {}]

\* the guard called next(): the protected handler runs
Pass(consulted) ==
  [status |-> 0, handlerCalls |-> 1, consulted |-> consulted,
   thrown |-> FALSE, value |-> TRUE, attached |-> NoAttached]

\* the guard threw err: the error handler answers, the handler never runs
Reject(err, consulted) ==
  [status |-> ErrorResponse(err), handlerCalls |-> 0, consulted |-> consulted,
   thrown |-> TRUE, value |-> FALSE, attached |-> NoAttached]

\* a plain function call that returned or threw
Returned(r) ==
  [status |-> 0, handlerCalls |-> 0, consulted |-> {},
   thrown |-> r.thrown, value |-> r.value, attached |-> NoAttached]

NoResult == Returned(Ret(FALSE))

\* the three outcomes of a guard, and anything else
Outcome(result) ==
  IF result.handlerCalls > 0 THEN "Allowed"
  ELSE IF result.status = HTTP_STATUS.UNAUTHORIZED THEN "Unauthenticated"
  ELSE IF result.status = HTTP_STATUS.FORBIDDEN THEN "Denied"
  ELSE "Fault"

\* getResourceOwnerId(req): a synchronous resolver returns the id, an async
\* one returns a Promise (also when it will reject), a failing synchronous
\* one throws
getResourceOwnerId(resolver) ==
  CASE resolver.mode = "sync" -> [thrown |-> FALSE, value |-> resolver.value]
    [] resolver.mode = "async" -> [thrown |-> FALSE, value |-> Promise]
    [] resolver.mode = "reject" -> [thrown |-> FALSE, value |-> Promise]
    [] OTHER -> [thrown |-> TRUE, value |-> Undef]

\* the Promise of a rejecting resolver is neither awaited nor given a catch
\* handler: its rejection is left unhandled
UnhandledRejection(authenticated, resolver) ==
  authenticated /\ resolver.mode = "reject"

\* a guard that calls next() before it looks at the check
Decide_nextBeforeCheck(check, consulted) ==
  IF check.thrown THEN Reject(PlainError, consulted)
  ELSE IF ~check.value
    THEN [Reject(ApiError(HTTP_STATUS.FORBIDDEN), consulted) EXCEPT !.handlerCalls = 1]
  ELSE Pass(consulted)

\* decide on a boolean check that may itself have thrown
Decide(check, consulted) ==
  IF check.thrown THEN Reject(PlainError, consulted)
  ELSE IF ~check.value THEN Reject(ApiError(HTTP_STATUS.FORBIDDEN), consulted)
  ELSE Pass(consulted)

requirePermission(req, permission) ==
  IF ~req.authenticated THEN Reject(ApiError(HTTP_STATUS.UNAUTHORIZED), {})
  ELSE Decide(hasPermission(req.role, permission), {"hasPermission"})

requireAllPermissions(req, permissions) ==
  IF ~req.authenticated THEN Reject(ApiError(HTTP_STATUS.UNAUTHORIZED), {})
  ELSE Decide(hasAllPermissions(req.role, permissions), {"hasPermission"})

requireAnyPermission(req, permissions) ==
  IF ~req.authenticated THEN Reject(ApiError(HTTP_STATUS.UNAUTHORIZED), {})
  ELSE Decide(hasAnyPermission(req.role, permissions), {"hasPermission"})

\* requireOwnershipOrPermission with the owner resolved before the
\* authentication check
requireOwnershipOrPermission_resolveFirst(req, ownerPermission, anyPermission, resolver) ==
  LET resourceOwnerId == getResourceOwnerId(resolver)
  IN  IF resourceOwnerId.thrown THEN Reject(PlainError, {"resolver"})
      ELSE IF ~req.authenticated
        THEN Reject(ApiError(HTTP_STATUS.UNAUTHORIZED), {"resolver"})
      ELSE Decide(canPerformAction(req.role, anyPermission, ownerPermission,
                                   req.id, resourceOwnerId.value),
                  {"resolver", "hasPermission"})

requireOwnershipOrPermission(req, ownerPermission, anyPermission, resolver) ==
  IF ~req.authenticated THEN Reject(ApiError(HTTP_STATUS.UNAUTHORIZED), {})
  ELSE LET resourceOwnerId == getResourceOwnerId(resolver)
       IN  IF resourceOwnerId.thrown THEN Reject(PlainError, {"resolver"})
           ELSE Decide(canPerformAction(req.role, anyPermission, ownerPermission,
                                        req.id, resourceOwnerId.value),
                       {"resolver", "hasPermission"})

requireOwnership(req, resolver) ==
  IF ~req.authenticated THEN Reject(ApiError(HTTP_STATUS.UNAUTHORIZED), {})
  ELSE LET resourceOwnerId == getResourceOwnerId(resolver)
       IN  IF resourceOwnerId.thrown THEN Reject(PlainError, {"resolver"})
           ELSE Decide(Ret(isResourceOwner(req.id, resourceOwnerId.value)),
                       {"resolver"})

requireAdmin(req) ==
  IF ~req.authenticated THEN Reject(ApiError(HTTP_STATUS.UNAUTHORIZED), {})
  ELSE Decide(Ret(req.role = "admin"), {"role"})

\* requireRole that also lets a holder of system:config:update through
requireRole_permissionPromoted(req, roles) ==
  IF ~req.authenticated THEN Reject(ApiError(HTTP_STATUS.UNAUTHORIZED), {})
  ELSE Decide(Ret(req.role \in roles
                    \/ hasPermission(req.role, "system:config:update").value),
              {"role", "hasPermission"})

requireRole(req, roles) ==
  IF ~req.authenticated THEN Reject(ApiError(HTTP_STATUS.UNAUTHORIZED), {})
  ELSE Decide(Ret(req.role \in roles), {"role"})

\* requireRole of auth.middleware.js (legacy)
authRequireRole(req, roles) ==
  IF ~req.authenticated THEN Reject(ApiError(HTTP_STATUS.UNAUTHORIZED), {})
  ELSE Decide(Ret(req.role \in roles), {"role"})

attachUserPermissions(req) ==
  IF ~req.authenticated THEN Reject(ApiError(HTTP_STATUS.UNAUTHORIZED), {})
  ELSE [Pass({"role"}) EXCEPT !.attached = getRolePermissions(req.role)]

\* checkPermission(user, permission): returns, or throws an ApiError
checkPermission(req, permission) ==
  IF ~req.authenticated THEN Reject(ApiError(HTTP_STATUS.UNAUTHORIZED), {})
  ELSE Decide(hasPermission(req.role, permission), {"hasPermission"})

\* checkOwnership(userId, resourceOwnerId): returns, or throws an ApiError
checkOwnership(userId, resourceOwnerId) ==
  IF ~isResourceOwner(userId, resourceOwnerId)
    THEN Reject(ApiError(HTTP_STATUS.FORBIDDEN), {})
    ELSE Returned(Ret(TRUE))

\* getRolePermissions of rbac.model.js: the active role's active permissions
rbacGetRolePermissions(roleName) ==
  IF RoleFindByName(roleName) = {} THEN {}
  ELSE RoleGetPermissions(CHOOSE r \in RoleFindByName(roleName) : TRUE)

(***************************************************************************)
(* Inputs of the guard evaluations.                                        *)
(***************************************************************************)
RoleInputs ==
  {"admin", "agent", "customer", "guest", "constructor", "", Undefined}
PrincipalIds == {Num(7), Num(9), Str("7")}
NoUser == [authenticated |-> FALSE, id |-> Undef, role |-> Undefined]
Principals ==
  {[authenticated |-> TRUE, id |-> i, role |-> r] : i \in PrincipalIds, r \in RoleInputs}
Requests == {NoUser} \cup Principals

GuardPerms ==
  {"booking:create", "user:delete:any", "address:update", UnknownPermission}
ListPerms == {"booking:create", "user:delete:any", UnknownPermission}
PermLists == UNION {[1..n -> ListPerms] : n \in 0..MaxPerms}
OwnerPerms == {"address:update", Undefined}
AnyPerms == {"address:update:any", "address:read", UnknownPermission}
OwnerValues == {Num(7), Str("7"), Str("9"), Undef}
Resolvers ==
  {[mode |-> m, value |-> v] : m \in {"sync", "async"}, v \in OwnerValues}
    \cup {[mode |-> "throw", value |-> Undef], [mode |-> "reject", value |-> Undef]}
NoResolver == [mode |-> "none", value |-> Undef]
RoleLists == SUBSET {"admin", "agent", "customer"}
\* identifiers handed to the ownership helpers: ids of users rows as numbers
\* or strings, and owner ids as a request or a record may carry them
UserIdValues == {Num(7), Num(42), Str("7"), Undef}
OwnerIdValues ==
  {Num(7), Num(42), Num(0), Str("7"), Str("42"), Str("07"), Str(""), Undef}

Evaluation(guard, req, permissions, ownerPermission, resolver, roles, result) ==
  [guard |-> guard, req |-> req, permissions |-> permissions,
   ownerPermission |-> ownerPermission, resolver |-> resolver,
   roles |-> roles, result |-> result]

NoEvaluation == Evaluation("none", NoUser, <<>>, Undefined, NoResolver, {}, NoResult)

(***************************************************************************)
(* Administrative writes: grantUserPermission, revokeUserPermission and    *)
(* the scheduled cleanup event.                                            *)
(***************************************************************************)
NoOp ==
  [op |-> "none", userId |-> 0, permission |-> Undefined,
   expiresOn |-> UndefinedDate, reason |-> Undefined,
   result |-> "none", heldBefore |-> FALSE, follows |-> "none",
   wrote |-> FALSE]

\* the row UserPermission.findOrCreate inserts from its where and defaults
\* (an undefined default leaves the column at its default, NULL)
CreatedRow(t, userId, permission, grantedBy, expiresOn, reason) ==
  [userId |-> userId, permission |-> permission, isGranted |-> Flag1,
   grantedOn |-> t, grantedBy |-> grantedBy,
   expiresOn |-> IF expiresOn = UndefinedDate THEN NullDate ELSE expiresOn,
   reason |-> IF reason = Undefined THEN NullText ELSE reason]

\* userPermission.update({ isGranted, grantedOn, grantedBy, expiresOn, reason }):
\* Sequelize's instance update ignores the keys whose value is undefined
UpdatedRow(row, t, grantedBy, expiresOn, reason) ==
  [row EXCEPT !.isGranted = Flag1,
              !.grantedOn = t,
              !.grantedBy = grantedBy,
              !.expiresOn = IF expiresOn = UndefinedDate THEN @ ELSE expiresOn,
              !.reason = IF reason = Undefined THEN @ ELSE reason]

\* the store after grantUserPermission, and what the call returned or threw
grantUserPermission(store, t, userId, permissionName, grantedBy, expiresOn, reason) ==
  IF PermissionFindByName(permissionName) = {}
    THEN [store |-> store, result |-> "Permission not found"]
  ELSE IF RowsFor(store, userId, permissionName) # {}
    THEN LET row == CHOOSE r \in RowsFor(store, userId, permissionName) : TRUE
         IN  [store |-> (store \ {row})
                          \cup {UpdatedRow(row, t, grantedBy, expiresOn, reason)},
              result |-> "ok"]
  ELSE IF userId \notin Users
    THEN [store |-> store, result |-> "ForeignKeyConstraintError"]
  ELSE [store |-> store \cup
                    {CreatedRow(t, userId, permissionName, grantedBy, expiresOn, reason)},
        result |-> "ok"]

\* the revoke also clearing the expiry of the row
RevokedRow_clearsExpiry(row) ==
  [row EXCEPT !.isGranted = Flag0, !.expiresOn = NullDate]

\* UserPermission.update({ isGranted: '0' }, { where: { userId, permissionId } })
RevokedRow(row) == [row EXCEPT !.isGranted = Flag0]

\* the revoke with the permission left out of its where clause
revokeUserPermission_everyPermission(store, userId, permissionName) ==
  IF PermissionFindByName(permissionName) = {}
    THEN [store |-> store, result |-> "false"]
  ELSE LET hit == {r \in store : r.userId = userId}
       IN  [store |-> (store \ hit) \cup {RevokedRow(r) : r \in hit},
            result |-> IF hit # {} THEN "true" ELSE "false"]

\* the store after revokeUserPermission, and the boolean it returned
revokeUserPermission(store, userId, permissionName) ==
  IF PermissionFindByName(permissionName) = {}
    THEN [store |-> store, result |-> "false"]
  ELSE LET hit == RowsFor(store, userId, permissionName)
       IN  [store |-> (store \ hit) \cup {RevokedRow(r) : r \in hit},
            result |-> IF hit # {} THEN "true" ELSE "false"]

\* the sweep with expires_on <= NOW()
CleanupExpired_inclusive(store, t) ==
  LET hit == {r \in store : /\ r.expiresOn # NullDate
                            /\ r.expiresOn <= t
                            /\ r.isGranted = Flag1}
  IN  (store \ hit) \cup {RevokedRow(r) : r \in hit}

\* evt_cleanup_expired_permissions
CleanupExpired(store, t) ==
  LET hit == {r \in store : /\ r.expiresOn # NullDate
                            /\ r.expiresOn < t
                            /\ r.isGranted = Flag1}
  IN  (store \ hit) \cup {RevokedRow(r) : r \in hit}

\* administrators whose calls may overlap, and what they grant
ConcurrentAdmins == {1, 2}
RacePairs == Users \X {"user:update:any"}
RaceExpiryInputs == {UndefinedDate, 0}

\* no call in progress
NoCall ==
  [pc |-> "idle", userId |-> 0, permission |-> Undefined,
   expiresOn |-> UndefinedDate, raced |-> FALSE]

Init ==
  /\ now = 0
  /\ userPermissions = {}
  /\ lastOp = NoOp
  /\ opsDone = 0
  /\ lastGuard = NoEvaluation
  /\ inflight = [a \in ConcurrentAdmins |-> NoCall]
  /\ rolePermissionRows = SeedRolePermissions
  /\ reader = NoRead
  /\ request = NoRequest

\* time passes
Tick ==
  /\ now < MaxTime
  /\ now' = now + 1
  /\ lastOp' = [NoOp EXCEPT !.op = "tick"]
  /\ UNCHANGED <<userPermissions, opsDone, lastGuard, inflight, rolePermissionRows,
                 request>>
  /\ ReaderObserves

Grant ==
  /\ opsDone < MaxOps
  /\ \E pair \in CallPairs, grantedBy \in Admins :
     \E expiresOn \in ExpiryInputsFor(pair) :
       LET userId == pair[1]
           permissionName == pair[2]
           reason == ReasonFor(expiresOn)
           out == grantUserPermission(userPermissions, now, userId, permissionName,
                                      grantedBy, expiresOn, reason)
       IN  /\ userPermissions' = out.store
           /\ lastOp' = [op |-> "grant", userId |-> userId,
                         permission |-> permissionName,
                         expiresOn |-> expiresOn, reason |-> reason,
                         result |-> out.result,
                         heldBefore |-> userHasPermission(userPermissions, now,
                                                          userId, permissionName),
                         follows |-> IF /\ lastOp.userId = userId
                                        /\ lastOp.permission = permissionName
                                       THEN lastOp.op ELSE "none",
                         wrote |-> out.store # userPermissions]
  /\ opsDone' = opsDone + 1
  /\ UNCHANGED <<now, lastGuard, inflight, rolePermissionRows, request>>
  /\ ReaderObserves

Revoke ==
  /\ opsDone < MaxOps
  /\ \E pair \in CallPairs :
       LET userId == pair[1]
           permissionName == pair[2]
           out == revokeUserPermission(userPermissions, userId, permissionName)
       IN  /\ userPermissions' = out.store
           /\ lastOp' = [NoOp EXCEPT !.op = "revoke", !.userId = userId,
                                     !.permission = permissionName,
                                     !.result = out.result,
                                     !.heldBefore =
                                        userHasPermission(userPermissions, now,
                                                          userId, permissionName),
                                     !.wrote = out.store # userPermissions]
  /\ opsDone' = opsDone + 1
  /\ UNCHANGED <<now, lastGuard, inflight, rolePermissionRows, request>>
  /\ ReaderObserves

Cleanup ==
  /\ opsDone < MaxOps
  /\ userPermissions' = CleanupExpired(userPermissions, now)
  /\ lastOp' = [NoOp EXCEPT !.op = "cleanup",
                            !.wrote = userPermissions' # userPermissions]
  /\ opsDone' = opsDone + 1
  /\ UNCHANGED <<now, lastGuard, inflight, rolePermissionRows, request>>
  /\ ReaderObserves

Next == Tick \/ Grant \/ Revoke \/ Cleanup

Spec == Init /\ [][Next]_vars

(***************************************************************************)
(* getUserEffectivePermissions statement by statement, while grants,       *)
(* revokes and changes of a role's permissions go on: User.findByPk,       *)
(* Role.findByName, role.getPermissions, and UserPermission.findAll with   *)
(* the filter on isExpired.  No transaction spans the four reads.          *)
(***************************************************************************)
\* the role and the permission the catalog calls are exercised with
CatalogRoleInputs == {"agent", "guest"}
CatalogPermInputs == {"user:update:any"}

\* the role_permissions rows after assignPermissionToRole, and what the call
\* returned or threw
assignPermissionToRole(rows, roleName, permissionName) ==
  IF RoleFindByName(roleName) = {}
    THEN [rows |-> rows, result |-> "Role not found"]
  ELSE IF PermissionFindByName(permissionName) = {}
    THEN [rows |-> rows, result |-> "Permission not found"]
  ELSE [rows |-> [rows EXCEPT ![roleName] = @ \cup {permissionName}],
        result |-> "ok"]

\* the role_permissions rows after removePermissionFromRole, and the boolean
\* it returned
removePermissionFromRole(rows, roleName, permissionName) ==
  IF RoleFindByName(roleName) = {} \/ PermissionFindByName(permissionName) = {}
    THEN [rows |-> rows, result |-> "false"]
  ELSE [rows |-> [rows EXCEPT ![roleName] = @ \ {permissionName}],
        result |-> IF permissionName \in rows[roleName] THEN "true" ELSE "false"]

AssignPermissionToRole ==
  /\ opsDone < MaxOps
  /\ \E roleName \in CatalogRoleInputs, permissionName \in CatalogPermInputs :
       LET out == assignPermissionToRole(rolePermissionRows, roleName, permissionName)
       IN  /\ rolePermissionRows' = out.rows
           /\ lastOp' = [NoOp EXCEPT !.op = "assign", !.permission = permissionName,
                                     !.result = out.result,
                                     !.wrote = out.rows # rolePermissionRows]
  /\ opsDone' = opsDone + 1
  /\ UNCHANGED <<now, userPermissions, lastGuard, inflight, request>>
  /\ ReaderObserves

RemovePermissionFromRole ==
  /\ opsDone < MaxOps
  /\ \E roleName \in CatalogRoleInputs, permissionName \in CatalogPermInputs :
       LET out == removePermissionFromRole(rolePermissionRows, roleName, permissionName)
       IN  /\ rolePermissionRows' = out.rows
           /\ lastOp' = [NoOp EXCEPT !.op = "remove", !.permission = permissionName,
                                     !.result = out.result,
                                     !.wrote = out.rows # rolePermissionRows]
  /\ opsDone' = opsDone + 1
  /\ UNCHANGED <<now, userPermissions, lastGuard, inflight, request>>
  /\ ReaderObserves

\* what the reader holds when the call returns result
ReadReturned(result) ==
  [reader EXCEPT !.pc = "returned", !.result = result,
                 !.inForce = @ \cup {InForce}]

\* const user = await User.findByPk(userId)
ReadFindByPk ==
  /\ reader.pc = "idle"
  /\ reader' = IF ReaderUser \notin Users
                 THEN ReadReturned({})
                 ELSE [reader EXCEPT !.pc = "findRole", !.inForce = {InForce}]
  /\ UNCHANGED <<now, userPermissions, lastOp, opsDone, lastGuard, inflight,
                 rolePermissionRows, request>>

\* const role = await Role.findByName(user.role)
ReadRoleFindByName ==
  /\ reader.pc = "findRole"
  /\ reader' = IF RoleFindByName(UserRole(ReaderUser)) = {}
                 THEN ReadReturned({})
                 ELSE [reader EXCEPT !.pc = "getPermissions",
                                     !.role = UserRole(ReaderUser)]
  /\ UNCHANGED <<now, userPermissions, lastOp, opsDone, lastGuard, inflight,
                 rolePermissionRows, request>>

\* const rolePermissions = await role.getPermissions(...)
ReadRoleGetPermissions ==
  /\ reader.pc = "getPermissions"
  /\ reader' = [reader EXCEPT !.pc = "findAll",
                              !.rolePermissions = RoleGetPermissions(reader.role)]
  /\ UNCHANGED <<now, userPermissions, lastOp, opsDone, lastGuard, inflight,
                 rolePermissionRows, request>>

\* const userPermissions = await UserPermission.findAll(...), the filter on
\* isExpired, and the return of the combined names
ReadFindAll ==
  /\ reader.pc = "findAll"
  /\ reader' = ReadReturned(
                 reader.rolePermissions
                   \cup {r.permission : r \in
                           {up \in GrantedRows(userPermissions, ReaderUser) :
                              ~isExpired(up, now)}})
  /\ UNCHANGED <<now, userPermissions, lastOp, opsDone, lastGuard, inflight,
                 rolePermissionRows, request>>

\* the override the calls that overlap the read are about
OverlapPerms == {"address:update"}

\* grantUserPermission for the reader's user, between two of its reads
OverlappingGrant ==
  /\ opsDone < MaxOps
  /\ \E permissionName \in OverlapPerms, grantedBy \in Admins,
        expiresOn \in RaceExpiryInputs :
       LET out == grantUserPermission(userPermissions, now, ReaderUser,
                                      permissionName, grantedBy, expiresOn,
                                      ReasonFor(expiresOn))
       IN  /\ userPermissions' = out.store
           /\ lastOp' = [NoOp EXCEPT !.op = "grant", !.userId = ReaderUser,
                                     !.permission = permissionName,
                                     !.expiresOn = expiresOn,
                                     !.result = out.result,
                                     !.wrote = out.store # userPermissions]
  /\ opsDone' = opsDone + 1
  /\ UNCHANGED <<now, lastGuard, inflight, rolePermissionRows, request>>
  /\ ReaderObserves

\* revokeUserPermission for the reader's user, between two of its reads
OverlappingRevoke ==
  /\ opsDone < MaxOps
  /\ \E permissionName \in OverlapPerms :
       LET out == revokeUserPermission(userPermissions, ReaderUser, permissionName)
       IN  /\ userPermissions' = out.store
           /\ lastOp' = [NoOp EXCEPT !.op = "revoke", !.userId = ReaderUser,
                                     !.permission = permissionName,
                                     !.result = out.result,
                                     !.wrote = out.store # userPermissions]
  /\ opsDone' = opsDone + 1
  /\ UNCHANGED <<now, lastGuard, inflight, rolePermissionRows, request>>
  /\ ReaderObserves

ReadNext ==
  \/ ReadFindByPk
  \/ ReadRoleFindByName
  \/ ReadRoleGetPermissions
  \/ ReadFindAll
  \/ OverlappingGrant
  \/ OverlappingRevoke
  \/ AssignPermissionToRole
  \/ RemovePermissionFromRole
  \/ Tick

ReadSpec == Init /\ [][ReadNext]_vars

(***************************************************************************)
(* grantUserPermission statement by statement, for calls that overlap:     *)
(* Permission.findByName, the SELECT and the INSERT of findOrCreate, and   *)
(* the UPDATE of an existing row.  The table enforces its unique key       *)
(* (user_id, permission_id) and its foreign key to users on every INSERT.  *)
(***************************************************************************)
\* INSERT INTO user_permissions with the unique key left out
InsertUserPermission_noUniqueKey(store, row) ==
  IF row.userId \notin Users
    THEN [store |-> store, error |-> "ForeignKeyConstraintError"]
  ELSE [store |-> store \cup {row}, error |-> "none"]

\* INSERT INTO user_permissions
InsertUserPermission(store, row) ==
  IF RowsFor(store, row.userId, row.permission) # {}
    THEN [store |-> store, error |-> "UniqueConstraintError"]
  ELSE IF row.userId \notin Users
    THEN [store |-> store, error |-> "ForeignKeyConstraintError"]
  ELSE [store |-> store \cup {row}, error |-> "none"]

\* what lastOp records when the call of administrator a ends
GrantEnded(a, result, wrote) ==
  [op |-> "grant", userId |-> inflight[a].userId,
   permission |-> inflight[a].permission,
   expiresOn |-> inflight[a].expiresOn,
   reason |-> ReasonFor(inflight[a].expiresOn),
   result |-> result,
   heldBefore |-> userHasPermission(userPermissions, now, inflight[a].userId,
                                    inflight[a].permission),
   follows |-> IF inflight[a].raced THEN "UniqueConstraintError" ELSE "none",
   wrote |-> wrote]

\* the call starts: Permission.findByName(permissionName)
GrantFindByName ==
  /\ opsDone < MaxOps
  /\ \E a \in ConcurrentAdmins, pair \in RacePairs, expiresOn \in RaceExpiryInputs :
       /\ inflight[a].pc = "idle"
       /\ IF PermissionFindByName(pair[2]) = {}
            THEN /\ lastOp' = [NoOp EXCEPT !.op = "grant", !.userId = pair[1],
                                           !.permission = pair[2],
                                           !.result = "Permission not found"]
                 /\ UNCHANGED inflight
            ELSE /\ inflight' = [inflight EXCEPT ![a] =
                                   [pc |-> "findOne", userId |-> pair[1],
                                    permission |-> pair[2], expiresOn |-> expiresOn,
                                    raced |-> FALSE]]
                 /\ UNCHANGED lastOp
  /\ opsDone' = opsDone + 1
  /\ UNCHANGED <<now, userPermissions, lastGuard, rolePermissionRows, reader, request>>

\* findOrCreate, first statement: SELECT the row of the pair
GrantFindOne ==
  /\ \E a \in ConcurrentAdmins :
       /\ inflight[a].pc = "findOne"
       /\ inflight' = [inflight EXCEPT ![a].pc =
                         IF RowsFor(userPermissions, inflight[a].userId,
                                    inflight[a].permission) # {}
                           THEN "update" ELSE "create"]
  /\ UNCHANGED <<now, userPermissions, lastOp, opsDone, lastGuard,
                 rolePermissionRows, reader, request>>

\* findOrCreate, second statement: INSERT the row; on a unique-key violation
\* findOrCreate reads the row another call created and reports created = false
GrantCreate ==
  /\ \E a \in ConcurrentAdmins :
       /\ inflight[a].pc = "create"
       /\ LET out == InsertUserPermission(
                       userPermissions,
                       CreatedRow(now, inflight[a].userId, inflight[a].permission, a,
                                  inflight[a].expiresOn,
                                  ReasonFor(inflight[a].expiresOn)))
          IN  IF out.error = "UniqueConstraintError"
                THEN /\ inflight' = [inflight EXCEPT ![a].pc = "update",
                                                     ![a].raced = TRUE]
                     /\ UNCHANGED <<userPermissions, lastOp>>
                ELSE /\ userPermissions' = out.store
                     /\ lastOp' = GrantEnded(a, IF out.error = "none" THEN "ok"
                                                ELSE out.error,
                                             out.store # userPermissions)
                     /\ inflight' = [inflight EXCEPT ![a] = NoCall]
  /\ UNCHANGED <<now, opsDone, lastGuard, rolePermissionRows, request>>
  /\ ReaderObserves

\* created = false: userPermission.update(...) writes the row of the pair
GrantUpdate ==
  /\ \E a \in ConcurrentAdmins :
       /\ inflight[a].pc = "update"
       /\ LET hit == RowsFor(userPermissions, inflight[a].userId,
                             inflight[a].permission)
              new == {UpdatedRow(r, now, a, inflight[a].expiresOn,
                                 ReasonFor(inflight[a].expiresOn)) : r \in hit}
          IN  /\ userPermissions' = (userPermissions \ hit) \cup new
              /\ lastOp' = GrantEnded(a, "ok", new # hit)
       /\ inflight' = [inflight EXCEPT ![a] = NoCall]
  /\ UNCHANGED <<now, opsDone, lastGuard, rolePermissionRows, request>>
  /\ ReaderObserves

ConcurrentNext ==
  \/ GrantFindByName
  \/ GrantFindOne
  \/ GrantCreate
  \/ GrantUpdate
  \/ Revoke
  \/ Tick

ConcurrentSpec == Init /\ [][ConcurrentNext]_vars

(***************************************************************************)
(* One request through one guard, or one call of a decision function.      *)
(***************************************************************************)
Idle == lastGuard.guard = "none"

EvalRequirePermission ==
  /\ Idle
  /\ \E req \in Requests, permission \in GuardPerms :
       lastGuard' = Evaluation("requirePermission", req, <<permission>>, Undefined,
                               NoResolver, {}, requirePermission(req, permission))
  /\ UNCHANGED storeVars

EvalRequireAllPermissions ==
  /\ Idle
  /\ \E req \in Requests, permissions \in PermLists :
       lastGuard' = Evaluation("requireAllPermissions", req, permissions, Undefined,
                               NoResolver, {}, requireAllPermissions(req, permissions))
  /\ UNCHANGED storeVars

EvalRequireAnyPermission ==
  /\ Idle
  /\ \E req \in Requests, permissions \in PermLists :
       lastGuard' = Evaluation("requireAnyPermission", req, permissions, Undefined,
                               NoResolver, {}, requireAnyPermission(req, permissions))
  /\ UNCHANGED storeVars

EvalRequireOwnershipOrPermission ==
  /\ Idle
  /\ \E req \in Requests, ownerPermission \in OwnerPerms, anyPermission \in AnyPerms,
        resolver \in Resolvers :
       lastGuard' = Evaluation("requireOwnershipOrPermission", req, <<anyPermission>>,
                               ownerPermission, resolver, {},
                               requireOwnershipOrPermission(req, ownerPermission,
                                                            anyPermission, resolver))
  /\ UNCHANGED storeVars

EvalRequireOwnership ==
  /\ Idle
  /\ \E req \in Requests, resolver \in Resolvers :
       lastGuard' = Evaluation("requireOwnership", req, <<>>, Undefined, resolver, {},
                               requireOwnership(req, resolver))
  /\ UNCHANGED storeVars

EvalRequireAdmin ==
  /\ Idle
  /\ \E req \in Requests :
       lastGuard' = Evaluation("requireAdmin", req, <<>>, Undefined, NoResolver,
                               {"admin"}, requireAdmin(req))
  /\ UNCHANGED storeVars

EvalRequireRole ==
  /\ Idle
  /\ \E req \in Requests, roles \in RoleLists :
       lastGuard' = Evaluation("requireRole", req, <<>>, Undefined, NoResolver,
                               roles, requireRole(req, roles))
  /\ UNCHANGED storeVars

EvalAuthRequireRole ==
  /\ Idle
  /\ \E req \in Requests, roles \in RoleLists :
       lastGuard' = Evaluation("authRequireRole", req, <<>>, Undefined, NoResolver,
                               roles, authRequireRole(req, roles))
  /\ UNCHANGED storeVars

\* attachUserPermissions emptying the role's rows it has read
EvalAttachUserPermissions_writesCatalog ==
  /\ Idle
  /\ \E req \in Requests :
       /\ lastGuard' = Evaluation("attachUserPermissions", req, <<>>, Undefined,
                                  NoResolver, {}, attachUserPermissions(req))
       /\ rolePermissionRows' =
            IF req.role \in DOMAIN rolePermissionRows
              THEN [rolePermissionRows EXCEPT ![req.role] = {}]
              ELSE rolePermissionRows
  /\ UNCHANGED <<now, userPermissions, lastOp, opsDone, inflight, reader, request>>

EvalAttachUserPermissions ==
  /\ Idle
  /\ \E req \in Requests :
       lastGuard' = Evaluation("attachUserPermissions", req, <<>>, Undefined,
                               NoResolver, {}, attachUserPermissions(req))
  /\ UNCHANGED storeVars

EvalCheckPermission ==
  /\ Idle
  /\ \E req \in Requests, permission \in GuardPerms :
       lastGuard' = Evaluation("checkPermission", req, <<permission>>, Undefined,
                               NoResolver, {}, checkPermission(req, permission))
  /\ UNCHANGED storeVars

\* req.user as authenticateToken attaches it for a users row
PrincipalOf(userId) ==
  [authenticated |-> TRUE, id |-> Num(userId), role |-> UserRole(userId)]

\* a caller that carries only a role and no id
RoleOnly(role) == [authenticated |-> TRUE, id |-> Undef, role |-> role]

CallHasPermission ==
  /\ Idle
  /\ \E role \in RoleInputs, permission \in GuardPerms :
       lastGuard' = Evaluation("hasPermission", RoleOnly(role), <<permission>>,
                               Undefined, NoResolver, {},
                               Returned(hasPermission(role, permission)))
  /\ UNCHANGED storeVars

CallHasAllPermissions ==
  /\ Idle
  /\ \E role \in RoleInputs, permissions \in PermLists :
       lastGuard' = Evaluation("hasAllPermissions", RoleOnly(role), permissions,
                               Undefined, NoResolver, {},
                               Returned(hasAllPermissions(role, permissions)))
  /\ UNCHANGED storeVars

CallHasAnyPermission ==
  /\ Idle
  /\ \E role \in RoleInputs, permissions \in PermLists :
       lastGuard' = Evaluation("hasAnyPermission", RoleOnly(role), permissions,
                               Undefined, NoResolver, {},
                               Returned(hasAnyPermission(role, permissions)))
  /\ UNCHANGED storeVars

CallCanPerformAction ==
  /\ Idle
  /\ \E req \in Principals, ownerPermission \in OwnerPerms, permission \in AnyPerms,
        resourceOwnerId \in OwnerValues :
       lastGuard' = Evaluation("canPerformAction", req, <<permission>>, ownerPermission,
                               [mode |-> "sync", value |-> resourceOwnerId], {},
                               Returned(canPerformAction(req.role, permission,
                                                         ownerPermission, req.id,
                                                         resourceOwnerId)))
  /\ UNCHANGED storeVars

CallGetRolePermissions ==
  /\ Idle
  /\ \E role \in RoleInputs :
       lastGuard' = Evaluation("getRolePermissions", RoleOnly(role), <<>>, Undefined,
                               NoResolver, {},
                               [Returned(Ret(TRUE)) EXCEPT
                                  !.attached = getRolePermissions(role)])
  /\ UNCHANGED storeVars

CallRbacGetRolePermissions ==
  /\ Idle
  /\ \E role \in RoleInputs :
       lastGuard' = Evaluation("rbacGetRolePermissions", RoleOnly(role), <<>>,
                               Undefined, NoResolver, {},
                               [Returned(Ret(TRUE)) EXCEPT
                                  !.attached = [kind |-> "array",
                                                items |-> rbacGetRolePermissions(role)]])
  /\ UNCHANGED storeVars

\* a caller that carries only an id and no role
IdOnly(userId) == [authenticated |-> TRUE, id |-> userId, role |-> Undefined]

CallIsResourceOwner ==
  /\ Idle
  /\ \E userId \in UserIdValues, resourceOwnerId \in OwnerIdValues :
       lastGuard' = Evaluation("isResourceOwner", IdOnly(userId), <<>>, Undefined,
                               [mode |-> "sync", value |-> resourceOwnerId], {},
                               Returned(Ret(isResourceOwner(userId, resourceOwnerId))))
  /\ UNCHANGED storeVars

CallCheckOwnership ==
  /\ Idle
  /\ \E userId \in UserIdValues, resourceOwnerId \in OwnerIdValues :
       lastGuard' = Evaluation("checkOwnership", IdOnly(userId), <<>>, Undefined,
                               [mode |-> "sync", value |-> resourceOwnerId], {},
                               checkOwnership(userId, resourceOwnerId))
  /\ UNCHANGED storeVars

GuardNext ==
  \/ EvalRequirePermission
  \/ EvalRequireAllPermissions
  \/ EvalRequireAnyPermission
  \/ EvalRequireOwnershipOrPermission
  \/ EvalRequireOwnership
  \/ EvalRequireAdmin
  \/ EvalRequireRole
  \/ EvalAuthRequireRole
  \/ EvalAttachUserPermissions
  \/ EvalCheckPermission
  \/ CallHasPermission
  \/ CallHasAllPermissions
  \/ CallHasAnyPermission
  \/ CallCanPerformAction
  \/ CallGetRolePermissions
  \/ CallRbacGetRolePermissions
  \/ CallIsResourceOwner
  \/ CallCheckOwnership

GuardSpec == Init /\ [][GuardNext]_vars

(***************************************************************************)
(* One request on its way through a guard middleware: the request reaches  *)
(* the guard, the guard body runs, and then either the protected handler   *)
(* runs (the guard called next()) or the error handler of app.js answers   *)
(* (the guard threw and its wrapper passed the error on).                  *)
(***************************************************************************)
adminVars ==
  <<now, userPermissions, lastOp, opsDone, inflight, rolePermissionRows, reader>>

\* every evaluation of a guard middleware on the inputs above
GuardEvaluations ==
  {Evaluation("requirePermission", req, <<permission>>, Undefined, NoResolver, {},
              requirePermission(req, permission)) :
     req \in Requests, permission \in GuardPerms}
  \cup
  {Evaluation("requireAllPermissions", req, permissions, Undefined, NoResolver, {},
              requireAllPermissions(req, permissions)) :
     req \in Requests, permissions \in PermLists}
  \cup
  {Evaluation("requireAnyPermission", req, permissions, Undefined, NoResolver, {},
              requireAnyPermission(req, permissions)) :
     req \in Requests, permissions \in PermLists}
  \cup
  {Evaluation("requireOwnershipOrPermission", req, <<arg[2]>>, arg[1], arg[3], {},
              requireOwnershipOrPermission(req, arg[1], arg[2], arg[3])) :
     req \in Requests, arg \in OwnerPerms \X AnyPerms \X Resolvers}
  \cup
  {Evaluation("requireOwnership", req, <<>>, Undefined, resolver, {},
              requireOwnership(req, resolver)) :
     req \in Requests, resolver \in Resolvers}
  \cup
  {Evaluation("requireAdmin", req, <<>>, Undefined, NoResolver, {"admin"},
              requireAdmin(req)) :
     req \in Requests}
  \cup
  {Evaluation("requireRole", req, <<>>, Undefined, NoResolver, roles,
              requireRole(req, roles)) :
     req \in Requests, roles \in RoleLists}
  \cup
  {Evaluation("authRequireRole", req, <<>>, Undefined, NoResolver, roles,
              authRequireRole(req, roles)) :
     req \in Requests, roles \in RoleLists}
  \cup
  {Evaluation("attachUserPermissions", req, <<>>, Undefined, NoResolver, {},
              attachUserPermissions(req)) :
     req \in Requests}

\* the router hands the request to the guard middleware
ReceiveRequest ==
  /\ request.phase = "none"
  /\ request' = [request EXCEPT !.phase = "received"]
  /\ UNCHANGED <<adminVars, lastGuard>>

\* the guard body runs to its next() or to its throw
RunGuard ==
  /\ request.phase = "received"
  /\ \E ev \in GuardEvaluations : lastGuard' = ev
  /\ request' = [request EXCEPT !.phase = "evaluated"]
  /\ UNCHANGED adminVars

\* next(): the protected handler runs
InvokeHandler ==
  /\ request.phase = "evaluated"
  /\ request.handlerRuns < lastGuard.result.handlerCalls
  /\ request' = [request EXCEPT !.handlerRuns = @ + 1]
  /\ UNCHANGED <<adminVars, lastGuard>>

\* the thrown error reaches the error handler, which sends the response
ErrorHandler ==
  /\ request.phase = "evaluated"
  /\ lastGuard.result.thrown
  /\ request.response = 0
  /\ request' = [request EXCEPT !.response = lastGuard.result.status]
  /\ UNCHANGED <<adminVars, lastGuard>>

RequestNext == ReceiveRequest \/ RunGuard \/ InvokeHandler \/ ErrorHandler

\* a guard body has nothing to wait for, and express runs the next handler
\* or the error handler as soon as next is called
RequestSpec ==
  /\ Init
  /\ [][RequestNext]_vars
  /\ WF_vars(RunGuard)
  /\ WF_vars(InvokeHandler)
  /\ WF_vars(ErrorHandler)

TypeOK ==
  /\ now \in Dates
  /\ opsDone \in 0..MaxOps
  /\ \A r \in userPermissions :
        /\ r.userId \in Users
        /\ r.permission \in PermissionRows
        /\ r.isGranted \in {Flag0, Flag1}
        /\ r.expiresOn \in Dates \cup {NullDate}

(***************************************************************************)
(* Properties of the resolver and the override store.                      *)
(***************************************************************************)
\* an override record for (userId, p) with isGranted true and not expired
ActiveOverride(userId, p) ==
  \E r \in RowsFor(userPermissions, userId, p) : isActivePermission(r, now)

\* the last call was a grant / revoke that completed without throwing
GrantCompleted == lastOp.op = "grant" /\ lastOp.result = "ok"
RevokeCompleted == lastOp.op = "revoke"

\* C1: hasPermission(principal, p) is true iff p is in the default set of the
\* principal's role or an active (granted, unexpired) override for
\* (principal.id, p) exists; an active override contributes even when the
\* role contributes nothing.
C1_HasPermissionIffRoleOrOverride ==
  \A u \in Users, p \in StorePerms :
    hasPermission(UserRole(u), p).value
      <=> (p \in ROLE_PERMISSIONS[UserRole(u)] \/ ActiveOverride(u, p))

\* C2: an override whose expiresOn is in the past never contributes to the
\* decision; one granted with a future expiresOn contributes at once and
\* until the clock passes expiresOn, then stops contributing although no
\* revoke and no cleanup touched the record.
C2_ExpiryIsLazy ==
  /\ \A r \in userPermissions :
        /\ (r.expiresOn # NullDate /\ now > r.expiresOn)
              => (userHasPermission(userPermissions, now, r.userId, r.permission)
                    <=> r.permission \in SeedRolePermissions[UserRole(r.userId)])
        /\ (r.isGranted = Flag1 /\ r.expiresOn # NullDate /\ now <= r.expiresOn)
              => userHasPermission(userPermissions, now, r.userId, r.permission)
  /\ (GrantCompleted /\ lastOp.expiresOn \in Dates /\ lastOp.expiresOn > now)
        => userHasPermission(userPermissions, now, lastOp.userId, lastOp.permission)

\* C2 witness: the clock has just passed the expiry of a record that is
\* still marked granted, and the decision for it is now false.
C2_Witness ==
  /\ lastOp.op = "tick"
  /\ \E r \in userPermissions :
        /\ r.isGranted = Flag1
        /\ r.expiresOn # NullDate
        /\ r.expiresOn = now - 1
        /\ r.grantedOn < r.expiresOn
        /\ ~userHasPermission(userPermissions, now, r.userId, r.permission)

\* C3: after revoke(u, p) completes the decision for (u, p) is false, whether
\* p reached u through an override or through the role defaults, and after
\* a following grant(u, p) completes it is true.
C3_RevokeThenGrant ==
  /\ RevokeCompleted
        => ~userHasPermission(userPermissions, now, lastOp.userId, lastOp.permission)
  /\ (GrantCompleted /\ lastOp.follows = "revoke")
        => userHasPermission(userPermissions, now, lastOp.userId, lastOp.permission)

\* C4: a grant of a permission the principal already holds leaves the
\* decision true, whatever grantedBy, expiresOn and reason the call carries.
C4_GrantIsIdempotent ==
  (GrantCompleted /\ lastOp.heldBefore)
    => userHasPermission(userPermissions, now, lastOp.userId, lastOp.permission)

(***************************************************************************)
(* Properties of the decision functions and the guards.                    *)
(***************************************************************************)
GuardNames ==
  {"requirePermission", "requireAllPermissions", "requireAnyPermission",
   "requireOwnershipOrPermission", "requireOwnership", "requireAdmin",
   "requireRole", "authRequireRole", "attachUserPermissions", "checkPermission"}

\* the permission names an evaluation references
Referenced(ev) ==
  {ev.permissions[i] : i \in DOMAIN ev.permissions}
    \cup (IF Falsy(ev.ownerPermission) THEN {} ELSE {ev.ownerPermission})

\* the role holds p according to the catalog
Holds(role, p) == role \in DOMAIN ROLE_PERMISSIONS /\ p \in ROLE_PERMISSIONS[role]

\* C5: a check that references only permission names absent from the catalog
\* evaluates to false (a guard: Denied) and never throws, for every role and
\* every principal.
C5_UnknownPermissionIsFalse ==
  (/\ lastGuard.guard \in {"hasPermission", "hasAllPermissions", "hasAnyPermission",
                            "canPerformAction", "requirePermission",
                            "requireAllPermissions", "requireAnyPermission",
                            "requireOwnershipOrPermission", "checkPermission"}
   /\ lastGuard.req.authenticated
   /\ lastGuard.resolver.mode \in {"none", "sync"}
   /\ Referenced(lastGuard) # {}
   /\ Referenced(lastGuard) \cap PERMISSIONS = {})
    => /\ lastGuard.guard \in GuardNames => Outcome(lastGuard.result) = "Denied"
       /\ lastGuard.guard \notin GuardNames
            => ~lastGuard.result.thrown /\ ~lastGuard.result.value

\* C6: for every role value that is not a role of the catalog (absent, empty,
\* or any string that is not a key of the role mapping) permissionsForRole
\* is the empty set and every permission check is false, without an error.
C6_UnknownRoleIsEmpty ==
  (lastGuard.guard # "none" /\ lastGuard.req.authenticated
     /\ lastGuard.req.role \notin DOMAIN ROLE_PERMISSIONS)
    => /\ lastGuard.guard \in {"getRolePermissions", "rbacGetRolePermissions",
                               "attachUserPermissions"}
            => /\ ~lastGuard.result.thrown
               /\ lastGuard.result.attached.kind = "array"
               /\ lastGuard.result.attached.items = {}
       /\ (lastGuard.guard \in {"hasPermission", "hasAnyPermission"}
             \/ (lastGuard.guard = "hasAllPermissions" /\ lastGuard.permissions # <<>>))
            => ~lastGuard.result.thrown /\ ~lastGuard.result.value
       /\ lastGuard.guard \in {"requirePermission", "checkPermission",
                               "requireAnyPermission"}
            => Outcome(lastGuard.result) = "Denied"

\* the principal is the owner the resolver yields: both ids present and equal
\* in their string form
IsOwnerOf(req, resolver) ==
  /\ Truthy(req.id)
  /\ Truthy(resolver.value)
  /\ String(req.id) = String(resolver.value)

\* the evaluation is requireOwnershipOrPermission for a principal whose role
\* is a plain string, with a resolver that yields (does not fail)
OwnershipCase ==
  /\ lastGuard.guard = "requireOwnershipOrPermission"
  /\ lastGuard.req.authenticated
  /\ lastGuard.req.role \notin ObjectPrototypeKeys
  /\ lastGuard.resolver.mode \in {"sync", "async"}

\* C7: a principal holding anyPerm is Allowed whatever the resolver yields;
\* a principal lacking anyPerm is Allowed iff it is the resource owner and
\* holds ownPerm, and Denied otherwise.
C7_OwnershipPrecedence ==
  OwnershipCase =>
    LET holdsAny == Holds(lastGuard.req.role, lastGuard.permissions[1])
        holdsOwn == Holds(lastGuard.req.role, lastGuard.ownerPermission)
    IN  Outcome(lastGuard.result) =
          IF holdsAny \/ (IsOwnerOf(lastGuard.req, lastGuard.resolver) /\ holdsOwn)
            THEN "Allowed" ELSE "Denied"

\* C8: the guard gives the same outcome whether the resolver returns the
\* owner id synchronously or resolves it asynchronously.
C8_AsyncResolverSameOutcome ==
  (OwnershipCase /\ lastGuard.resolver.mode = "async")
    => Outcome(lastGuard.result) =
         Outcome(requireOwnershipOrPermission(
                   lastGuard.req, lastGuard.ownerPermission, lastGuard.permissions[1],
                   [mode |-> "sync", value |-> lastGuard.resolver.value]))

\* C9: every guard, when no principal is attached to the request, yields
\* Unauthenticated (401), never Denied or Allowed, and has consulted no
\* permission, role or owner resolver.
C9_NoPrincipalIsUnauthenticated ==
  (lastGuard.guard \in GuardNames /\ ~lastGuard.req.authenticated)
    => /\ Outcome(lastGuard.result) = "Unauthenticated"
       /\ lastGuard.result.status = HTTP_STATUS.UNAUTHORIZED
       /\ lastGuard.result.handlerCalls = 0
       /\ lastGuard.result.consulted = {}

\* C9 witness: a request without principal went through the ownership guard
\* whose resolver would have failed, and was answered 401.
C9_Witness ==
  /\ lastGuard.guard = "requireOwnershipOrPermission"
  /\ ~lastGuard.req.authenticated
  /\ lastGuard.resolver.mode = "throw"
  /\ Outcome(lastGuard.result) = "Unauthenticated"

\* C10: every guard evaluation, for every principal value and every guard
\* configuration, ends in exactly one of Unauthenticated, Denied, Allowed.
C10_ThreeOutcomes ==
  lastGuard.guard \in GuardNames
    => Outcome(lastGuard.result) \in {"Unauthenticated", "Denied", "Allowed"}

\* the resolver fails: it throws, rejects, or yields no value
ResolverFails(resolver) ==
  \/ resolver.mode \in {"throw", "reject"}
  \/ resolver.value = Undef

\* C11: when the owner resolver of requireOwnershipOrPermission or
\* requireOwnership throws, rejects or returns no value, the failure counts
\* as "no owner": a principal lacking anyPerm is Denied, and no fault or
\* unhandled rejection escapes the guard.
C11_ResolverFailureIsDenied ==
  (/\ lastGuard.guard \in {"requireOwnershipOrPermission", "requireOwnership"}
   /\ lastGuard.req.authenticated
   /\ lastGuard.req.role \notin ObjectPrototypeKeys
   /\ ResolverFails(lastGuard.resolver)
   /\ lastGuard.guard = "requireOwnershipOrPermission"
        => ~Holds(lastGuard.req.role, lastGuard.permissions[1]))
    => /\ Outcome(lastGuard.result) = "Denied"
       /\ ~UnhandledRejection(lastGuard.req.authenticated, lastGuard.resolver)

\* every permission of the list is held by the role according to the catalog
HoldsAll(role, permissions) ==
  \A i \in DOMAIN permissions : Holds(role, permissions[i])

\* some permission of the list is held by the role according to the catalog
HoldsAny(role, permissions) ==
  \E i \in DOMAIN permissions : Holds(role, permissions[i])

\* C12: for every authenticated principal requireAllPermissions(perms) is
\* Allowed iff the principal holds every permission of perms (so Allowed
\* for the empty list) and Denied otherwise.
C12_RequireAll ==
  (lastGuard.guard = "requireAllPermissions" /\ lastGuard.req.authenticated)
    => Outcome(lastGuard.result) =
         IF HoldsAll(lastGuard.req.role, lastGuard.permissions)
           THEN "Allowed" ELSE "Denied"

\* C13: for every authenticated principal requireAnyPermission(perms) is
\* Allowed iff the principal holds at least one permission of perms (so
\* Denied for the empty list) and Denied otherwise.
C13_RequireAny ==
  (lastGuard.guard = "requireAnyPermission" /\ lastGuard.req.authenticated)
    => Outcome(lastGuard.result) =
         IF HoldsAny(lastGuard.req.role, lastGuard.permissions)
           THEN "Allowed" ELSE "Denied"

RoleGuards == {"requireRole", "authRequireRole", "requireAdmin"}
PermissionGuards ==
  {"requirePermission", "requireAllPermissions", "requireAnyPermission",
   "requireOwnershipOrPermission", "checkPermission"}

\* C14: requireRole (both versions) and requireAdmin are Allowed iff the
\* principal's role is a member of the roles list and Denied otherwise,
\* having consulted nothing but the role (no catalog lookup, no override),
\* also for a role the catalog does not know; a permission-based guard
\* consults no roles list.
C14_RoleGuardsUseRoleOnly ==
  /\ (lastGuard.guard \in RoleGuards /\ lastGuard.req.authenticated)
        => /\ Outcome(lastGuard.result) =
                IF lastGuard.req.role \in lastGuard.roles THEN "Allowed" ELSE "Denied"
           /\ lastGuard.result.consulted = {"role"}
  /\ (lastGuard.guard \in PermissionGuards /\ lastGuard.req.authenticated)
        => /\ "role" \notin lastGuard.result.consulted
           /\ lastGuard.roles = {}

\* C14 witness: an admin, who holds every permission of the catalog, went
\* through requireRole for a list without admin and was Denied.
C14_Witness ==
  /\ lastGuard.guard = "requireRole"
  /\ lastGuard.req.authenticated
  /\ lastGuard.req.role = "admin"
  /\ lastGuard.roles = {"agent", "customer"}
  /\ Outcome(lastGuard.result) = "Denied"

\* an identifier is present: a number, or a non-empty string
Present(v) == v.t \in {"number", "string"} /\ v # Str("")

C16_GuardsHonourOverrides ==
  \A u \in Users, p \in StorePerms :
    p \notin ROLE_PERMISSIONS[UserRole(u)]
      => (Outcome(requirePermission(PrincipalOf(u), p)) = "Allowed"
            <=> ActiveOverride(u, p))

\* what a rejected administrative call throws
ValidationErrors == {"Permission not found", "ForeignKeyConstraintError"}

\* C17: a grant or revoke that names a principal without a users row or a
\* permission name without a permissions row is rejected with an error and
\* writes nothing.
C17_UnknownReferenceRejected ==
  (/\ lastOp.op \in {"grant", "revoke"}
   /\ (lastOp.userId \notin Users \/ lastOp.permission \notin PermissionRows))
    => lastOp.result \in ValidationErrors /\ ~lastOp.wrote

\* C18: a grant whose expiresOn is present and not strictly after the time
\* of the call is rejected and writes nothing, so no record is granted
\* with an expiresOn that was not after the time it was written.
C18_PastExpiryRejected ==
  /\ (lastOp.op = "grant" /\ lastOp.expiresOn \in Dates /\ lastOp.expiresOn <= now)
        => lastOp.result \in ValidationErrors /\ ~lastOp.wrote
  /\ \A r \in userPermissions :
        (r.isGranted = Flag1 /\ r.expiresOn # NullDate) => r.expiresOn > r.grantedOn

\* the permission names of the user's records that are granted and whose
\* expiresOn is null or after t
GrantedAndUnexpired(store, t, userId) ==
  {r.permission : r \in
     {up \in store : /\ up.userId = userId
                     /\ up.isGranted = Flag1
                     /\ (up.expiresOn = NullDate \/ up.expiresOn > t)}}

\* C19: the active overrides of a principal at time now are exactly the
\* names of its granted records with expiresOn null or after now, whether
\* read through findActiveForUser, through isActivePermission or through
\* the view; a granted record whose expiresOn is not after now is never
\* among them.
C19_ActiveOverrides ==
  \A u \in Users :
    LET active == GrantedAndUnexpired(userPermissions, now, u)
    IN  /\ {r.permission : r \in findActiveForUser(userPermissions, u)} = active
        /\ {r.permission : r \in {up \in userPermissions :
                                     up.userId = u /\ isActivePermission(up, now)}}
             = active
        /\ ViewUserOverrides(userPermissions, now, u) = active

\* C20: after any sequence of grants and revokes, also when grants of the
\* same pair by different administrators overlap, the store holds at most
\* one record per (userId, permission) pair.
C20_OneRecordPerPair ==
  \A r1 \in userPermissions, r2 \in userPermissions :
    (r1.userId = r2.userId /\ r1.permission = r2.permission) => r1 = r2

\* C20 witness: a grant has completed whose INSERT was refused by the
\* unique key because an overlapping call had created the record first,
\* and the pair has its one record.
C20_Witness ==
  /\ lastOp.op = "grant"
  /\ lastOp.result = "ok"
  /\ lastOp.follows = "UniqueConstraintError"
  /\ Cardinality(RowsFor(userPermissions, lastOp.userId, lastOp.permission)) = 1

(***************************************************************************)
(* Properties of overlapping writes, of the writes' frames and of the two  *)
(* resolvers.                                                              *)
(***************************************************************************)
\* the record of the pair is half-updated: marked granted, yet carrying an
\* expiresOn that has already passed
HalfUpdated(store, t, userId, permission) ==
  \E r \in RowsFor(store, userId, permission) :
    r.isGranted = Flag1 /\ r.expiresOn # NullDate /\ t > r.expiresOn

\* a step that changes the store is the whole write of one grant or one
\* revoke applied to the store as it stood
SerialWrite ==
  userPermissions' # userPermissions
    => \E pair \in CallPairs \cup RacePairs :
         \/ userPermissions'
              = revokeUserPermission(userPermissions, pair[1], pair[2]).store
         \/ \E grantedBy \in Admins \cup ConcurrentAdmins, expiresOn \in ExpiryInputs :
              userPermissions'
                = grantUserPermission(userPermissions, now, pair[1], pair[2],
                                      grantedBy, expiresOn, ReasonFor(expiresOn)).store

\* C21: a grant or revoke commits as one atomic upsert: under every
\* interleaving of grants, revokes and reads of a pair no read sees a
\* half-updated record (isGranted true next to the already-expired expiresOn
\* of an earlier grant, after a grant that carried none), and every write is
\* the write of one call applied serially.
C21_AtomicUpsert ==
  /\ [](GrantCompleted /\ lastOp.expiresOn = UndefinedDate
          => ~HalfUpdated(userPermissions, now, lastOp.userId, lastOp.permission))
  /\ [][SerialWrite]_vars

\* C22: revoke(u, p) is a soft revoke: the record of the pair, when there is
\* one, stays in the store with isGranted false and with its grantedBy,
\* grantedOn, expiresOn and reason as they were; no revoke deletes a record.
C22_RevokeIsSoft ==
  [][(opsDone' # opsDone /\ lastOp'.op = "revoke")
       => /\ \A r \in userPermissions :
               IF r.userId = lastOp'.userId /\ r.permission = lastOp'.permission
                 THEN [r EXCEPT !.isGranted = Flag0] \in userPermissions'
                 ELSE r \in userPermissions'
          /\ Cardinality(userPermissions') = Cardinality(userPermissions)]_vars

\* C22 witness: a revoke has just hit a record that was in force; the record
\* is still stored, not granted, with the expiresOn and reason of its grant.
C22_Witness ==
  /\ lastOp.op = "revoke"
  /\ lastOp.result = "true"
  /\ lastOp.heldBefore
  /\ \E r \in RowsFor(userPermissions, lastOp.userId, lastOp.permission) :
        /\ r.isGranted = Flag0
        /\ r.expiresOn \in Dates
        /\ r.reason = "temporary access"
        /\ r.grantedBy \in Admins

\* C23: after a grant completes, the record of the pair has isGranted true
\* and the grantedOn, expiresOn and reason of this call (none stored where
\* the call carried none), whether the record was created or an existing
\* record, possibly revoked or expired, was updated; a grant without
\* expiresOn therefore makes the decision for the pair true.
C23_GrantStoresItsArguments ==
  GrantCompleted
    => /\ \E r \in RowsFor(userPermissions, lastOp.userId, lastOp.permission) :
            /\ r.isGranted = Flag1
            /\ r.grantedOn = now
            /\ r.expiresOn = (IF lastOp.expiresOn = UndefinedDate
                                THEN NullDate ELSE lastOp.expiresOn)
            /\ r.reason = (IF lastOp.reason = Undefined
                             THEN NullText ELSE lastOp.reason)
       /\ lastOp.expiresOn \in {UndefinedDate, NullDate}
            => userHasPermission(userPermissions, now, lastOp.userId,
                                 lastOp.permission)

C25_SeededCatalog ==
  /\ (/\ lastGuard.guard = "requirePermission"
      /\ lastGuard.req.authenticated
      /\ lastGuard.req.role = "customer")
        => /\ lastGuard.permissions = <<"booking:create">>
                => Outcome(lastGuard.result) = "Allowed"
           /\ lastGuard.permissions = <<"user:delete:any">>
                => Outcome(lastGuard.result) = "Denied"
  /\ \A role \in RoleRows :
        /\ SeedRolePermissions[role] = ROLE_PERMISSIONS[role]
        /\ rbacGetRolePermissions(role) = getRolePermissions(role).items

\* C25 witness: a customer has gone through requirePermission('booking:create')
\* and reached the handler.
C25_Witness ==
  /\ lastGuard.guard = "requirePermission"
  /\ lastGuard.req.authenticated
  /\ lastGuard.req.role = "customer"
  /\ lastGuard.permissions = <<"booking:create">>
  /\ Outcome(lastGuard.result) = "Allowed"
  /\ "booking:create" \in rolePermissionRows["customer"]

C27_SweepChangesNoDecision ==
  [][(opsDone' # opsDone /\ lastOp'.op = "cleanup")
       => /\ \A r \in userPermissions \ userPermissions' :
               ~isActivePermission(r, now)
          /\ \A u \in Users, p \in StorePerms :
               /\ userHasPermission(userPermissions', now, u, p)
                    <=> userHasPermission(userPermissions, now, u, p)
               /\ sp_check_user_permission(userPermissions', now, u, p)
                    <=> sp_check_user_permission(userPermissions, now, u, p)]_vars

\* C27 witness: a sweep has just cleared isGranted on a record whose
\* expiresOn had passed, while another record of the store stays granted.
C27_Witness ==
  /\ lastOp.op = "cleanup"
  /\ lastOp.wrote
  /\ \E r \in userPermissions :
        r.isGranted = Flag0 /\ r.expiresOn # NullDate /\ r.expiresOn < now
  /\ \E r \in userPermissions : r.isGranted = Flag1

\* C28: the two resolvers of effective permissions agree: in every stored
\* state and at every instant, the instant of an expiresOn included,
\* getUserEffectivePermissions(userId) returns exactly the permission names
\* that v_user_effective_permissions and sp_check_user_permission yield for
\* that user.
C28_ResolversAgree ==
  \A u \in Users \cup UnknownUsers :
    /\ getUserEffectivePermissions(userPermissions, now, u)
         = v_user_effective_permissions(userPermissions, now, u)
    /\ \A p \in StorePerms :
         userHasPermission(userPermissions, now, u, p)
           <=> sp_check_user_permission(userPermissions, now, u, p)

\* C29: the set one call of getUserEffectivePermissions(u) returns is the
\* effective permission set of u in the stored state at some single
\* instant between the call's start and its return, also while grant,
\* revoke, assignPermissionToRole and removePermissionFromRole run between
\* its reads.
C29_ReadIsASnapshot ==
  reader.pc = "returned" => reader.result \in reader.inForce

\* C30: grant(u, p) and revoke(u, p) change at most the one record of
\* (u, p): every record of another principal or another permission and the
\* whole role-permission catalog are unchanged, so the decision for every
\* other (u', p') is unchanged; a revoke of a pair that has no record
\* changes nothing and creates no record.
C30_WritesTouchOnePair ==
  [][(opsDone' # opsDone /\ lastOp'.op \in {"grant", "revoke"})
       => LET u == lastOp'.userId
              p == lastOp'.permission
          IN  /\ \A r \in userPermissions \cup userPermissions' :
                   (r.userId # u \/ r.permission # p)
                     => (r \in userPermissions /\ r \in userPermissions')
              /\ rolePermissionRows' = rolePermissionRows
              /\ \A u2 \in Users, p2 \in StorePerms :
                   (u2 # u \/ p2 # p)
                     => (userHasPermission(userPermissions', now, u2, p2)
                           <=> userHasPermission(userPermissions, now, u2, p2))
              /\ (lastOp'.op = "revoke" /\ RowsFor(userPermissions, u, p) = {})
                   => userPermissions' = userPermissions]_vars

\* C30 witness: a revoke of a pair that has no record has returned false
\* and written nothing, while the same user holds a granted record for
\* another permission.
C30_Witness ==
  /\ lastOp.op = "revoke"
  /\ lastOp.userId \in Users
  /\ lastOp.permission \in StorePerms
  /\ lastOp.result = "false"
  /\ ~lastOp.wrote
  /\ RowsFor(userPermissions, lastOp.userId, lastOp.permission) = {}
  /\ \E r \in userPermissions :
        r.userId = lastOp.userId /\ r.isGranted = Flag1

====
